---- MODULE Spec2Model ----
(***************************************************************************)
(* taiHEN: the kernel API layer of taihen.c over the Patch Store            *)
(* (patches.c), the Address Resolver (module.c), the Process Registry      *)
(* (proc_map.c), the baseline patches and the plugin configuration (hen.c, *)
(* parser.h).                                                              *)
(*                                                                         *)
(* taihen.c is modelled from its code.  The collaborators it calls are not *)
(* part of the sources at hand; they are modelled from the design document *)
(* (sections 3 to 7) and are marked so in the model map.                   *)
(*                                                                         *)
(* Target memory is modelled per patch site: mem[pid][addr] is the content *)
(* of the SiteLen cells that start at addr in the address space of pid.    *)
(* Footprints of different addresses do not overlap in the model.          *)
(***************************************************************************)
EXTENDS Integers, Sequences, FiniteSets, TLC

(* ------------------------------ bounds --------------------------------- *)

\* Handles the Patch Store may issue in one run (installs that succeed).
MaxUid == 3

\* Cells of target memory per patch site.
SiteLen == 3

\* Callers that run concurrently (specification SpecConc).
NumThreads == 2

(* ------------------------- program constants --------------------------- *)

\* The result codes stand for the values of the headers: they keep the sign
\* and are told apart, which is all the code looks at.

TAI_SUCCESS == 0
TAI_ERROR_SYSTEM == -1
TAI_ERROR_NOT_FOUND == -3
TAI_ERROR_INVALID_MODULE == -4
TAI_ERROR_INVALID_KERNEL_ADDR == -5
TAI_ERROR_PATCH_EXISTS == -6
TAI_ERROR_HOOK_ERROR == -7
\* "InvalidHandle" of the design document: release of a stale or unknown handle.
TAI_ERROR_INVALID_HANDLE == -8

SCE_KERNEL_START_SUCCESS == 0
SCE_KERNEL_START_FAILED == 2
SCE_KERNEL_STOP_SUCCESS == 0

KERNEL_PID == 0

\* Footprint of a redirect, in cells.
HOOK_SIZE == 2
\* First cell of a redirect: the branch opcode; the second cell is the target.
JMP_OPCODE == 99
\* next_ref of the innermost chain entry: the recorded original content.
ORIGINAL == 0

(* ---------------------------- input sets ------------------------------- *)

Pids == {KERNEL_PID, KERNEL_PID + 1}
\* 2 lies in the shared memory region.  The kernel has 0, 1 and 2 mapped, the
\* user process 0 only.
Addrs == 0 .. 3
SharedRegion == {2}
Unmapped(pid) == IF pid = KERNEL_PID THEN {3} ELSE {1, 2, 3}
\* Hook functions handed in by callers.
HookFuncs == {21, 22}
\* The hook function of the system's own baseline patch.
HenHook == 20
\* Source buffers of injections (kernel address space).
SrcBufs == {[i \in 1 .. SiteLen |-> 40 + i]}
Sizes == {1, SiteLen}
\* Negative results the Address Resolver may report.
ResolverErrors == {TAI_ERROR_NOT_FOUND, TAI_ERROR_INVALID_MODULE}
\* Handles a caller may pass to a release: issued ones and never issued ones.
Uids == 0 .. MaxUid + 1
\* Title ids and flags handed to the plugin loading.
Titles == {"PCSA00001", "PCSB00002"}
Flags == {0, 1}
\* The configurations hen.c may have loaded: the plugins listed for a title.
ConfigTexts ==
  << [t \in Titles |-> IF t = "PCSA00001" THEN <<"ux0:a.suprx", "ux0:b.suprx">> ELSE <<>>],
     [t \in Titles |-> <<"ux0:c.suprx">>] >>
\* What a plugin load may report.
PluginResults == {TAI_SUCCESS, TAI_ERROR_SYSTEM}

(* ------------------------------ state ---------------------------------- *)

VARIABLES
  mem,       \* target memory: [Pids -> [Addrs -> Seq(cell)]]
  patches,   \* Patch Store: the set of active Patch Records
  next_uid,  \* Patch Store: the next handle to issue
  sys,       \* lifecycle: what is initialised, the baseline handle, the steps run;
             \* hen.c: g_config (0: not loaded) and the plugins loaded per process
  held,      \* history: what the callers hold (handles returned and not released)
  last,      \* history: the last API call and its result
  mutex,     \* Patch Store: the caller inside the store (0: none)
  thr        \* concurrent callers: where each one is in its call

vars == <<mem, patches, next_uid, sys, held, last, mutex, thr>>

\* The state the operators below work on.
St == [mem |-> mem, patches |-> patches, next_uid |-> next_uid, sys |-> sys]

(* ------------------------- target memory ------------------------------- *)

\* Content of a site before anything was patched.
OrigContent(pid, addr) == [i \in 1 .. SiteLen |-> 100 * (pid + 1) + 10 * addr + i]

\* The redirect to hook_func, as written to memory.
Redirect(hook_func) == <<JMP_OPCODE, hook_func>>

\* Memory Mutator: the first `size` cells of a site.
mem_read(m, pid, addr, size) == SubSeq(m[pid][addr], 1, size)

\* Memory Mutator: overwrite the first Len(content) cells of a site.
mem_write(m, pid, addr, content) ==
  [m EXCEPT ![pid][addr] =
     [i \in 1 .. SiteLen |-> IF i <= Len(content) THEN content[i] ELSE @[i]]]

\* Memory Mutator: the protection bypass fails on an address that is not mapped.
mem_mapped(pid, addr) == addr \notin Unmapped(pid)

\* Process Registry: the kernel may not patch the shared memory region.
is_restricted(pid, addr) == pid = KERNEL_PID /\ addr \in SharedRegion

(* --------------------- Patch Store (patches.c) ------------------------- *)

\* What an API call yields: the state after it, its return value, the hook
\* reference written through p_hook (0: not written), and the calls it made
\* to the collaborators, in order.
Result(st, ret, hook, calls) == [st |-> st, ret |-> ret, hook |-> hook, calls |-> calls]

Call(fn, pid, addr, arg) == [fn |-> fn, pid |-> pid, addr |-> addr, arg |-> arg]

\* The active records at one site.
PatchesAt(ps, pid, addr) == {r \in ps : r.owner_pid = pid /\ r.target_address = addr}

HooksAt(ps, pid, addr) == {r \in PatchesAt(ps, pid, addr) : r.kind = "Hook"}

InjectionsAt(ps, pid, addr) == {r \in PatchesAt(ps, pid, addr) : r.kind = "Injection"}

\* The chain entries whose next_ref points at the entry with this handle.
PointingAt(ps, r) == {x \in HooksAt(ps, r.owner_pid, r.target_address) : x.next_ref = r.handle}

\* The topmost entries of the chain at a site: no entry calls through to them.
TopOf(ps, pid, addr) == {r \in HooksAt(ps, pid, addr) : PointingAt(ps, r) = {}}

ByHandle(ps, uid) == {r \in ps : r.handle = uid}

\* install(owner_pid, target_address, kind = Hook): design document 4.1, 4.2.
tai_hook_func_abs(st, pid, dest_func, hook_func) ==
  LET call == <<Call("tai_hook_func_abs", pid, dest_func, hook_func)>>
      top  == TopOf(st.patches, pid, dest_func)
      rec  == [handle |-> st.next_uid, owner_pid |-> pid, target_address |-> dest_func,
               kind |-> "Hook", size |-> HOOK_SIZE, hook_function |-> hook_func,
               original_content |->
                 IF top = {} THEN mem_read(st.mem, pid, dest_func, HOOK_SIZE)
                 ELSE (CHOOSE t \in top : TRUE).original_content,
               next_ref |-> IF top = {} THEN ORIGINAL ELSE (CHOOSE t \in top : TRUE).handle]
  IN  IF is_restricted(pid, dest_func)
        THEN Result(st, TAI_ERROR_INVALID_KERNEL_ADDR, 0, call)
      ELSE IF InjectionsAt(st.patches, pid, dest_func) # {}
        THEN Result(st, TAI_ERROR_PATCH_EXISTS, 0, call)
      ELSE IF ~mem_mapped(pid, dest_func)
        \* the record and the chain link are rolled back
        THEN Result(st, TAI_ERROR_HOOK_ERROR, 0, call)
      ELSE Result([st EXCEPT !.mem = mem_write(st.mem, pid, dest_func, Redirect(hook_func)),
                             !.patches = st.patches \cup {rec},
                             !.next_uid = st.next_uid + 1],
                  rec.handle, rec.handle, call)

\* release(handle) of a hook: design document 4.1, 4.2.
tai_hook_release(st, tai_uid, hook) ==
  LET call  == <<Call("tai_hook_release", 0, 0, tai_uid)>>
      found == {r \in ByHandle(st.patches, tai_uid) : r.kind = "Hook"}
      r     == CHOOSE x \in found : TRUE
      above == PointingAt(st.patches, r)
      below == ByHandle(st.patches, r.next_ref)
      rest  == st.patches \ {r}
  IN  IF found = {}
        THEN Result(st, TAI_ERROR_INVALID_HANDLE, 0, call)
      ELSE IF above = {}
        \* topmost: memory goes back to what next_ref stands for
        THEN Result([st EXCEPT !.mem = mem_write(st.mem, r.owner_pid, r.target_address,
                                          IF r.next_ref = ORIGINAL THEN r.original_content
                                          ELSE Redirect((CHOOSE b \in below : TRUE).hook_function)),
                               !.patches = rest],
                    TAI_SUCCESS, 0, call)
      \* not topmost: the entry above is relinked, memory is not touched
      ELSE Result([st EXCEPT !.patches = (rest \ above) \cup
                                          {[x EXCEPT !.next_ref = r.next_ref] : x \in above}],
                  TAI_SUCCESS, 0, call)

\* install(owner_pid, target_address, size, kind = Injection): design document 4.1.
tai_inject_abs(st, pid, dest, src, size) ==
  LET call == <<Call("tai_inject_abs", pid, dest, <<src, size>>)>>
      rec  == [handle |-> st.next_uid, owner_pid |-> pid, target_address |-> dest,
               kind |-> "Injection", size |-> size, hook_function |-> 0,
               original_content |-> mem_read(st.mem, pid, dest, size),
               next_ref |-> ORIGINAL]
  IN  IF is_restricted(pid, dest)
        THEN Result(st, TAI_ERROR_INVALID_KERNEL_ADDR, 0, call)
      ELSE IF PatchesAt(st.patches, pid, dest) # {}
        THEN Result(st, TAI_ERROR_PATCH_EXISTS, 0, call)
      ELSE IF ~mem_mapped(pid, dest)
        THEN Result(st, TAI_ERROR_HOOK_ERROR, 0, call)
      ELSE Result([st EXCEPT !.mem = mem_write(st.mem, pid, dest, SubSeq(src, 1, size)),
                             !.patches = st.patches \cup {rec},
                             !.next_uid = st.next_uid + 1],
                  rec.handle, 0, call)

\* release(handle) of an injection: design document 4.1.
tai_inject_release(st, tai_uid) ==
  LET call  == <<Call("tai_inject_release", 0, 0, tai_uid)>>
      found == {r \in ByHandle(st.patches, tai_uid) : r.kind = "Injection"}
      r     == CHOOSE x \in found : TRUE
  IN  IF found = {}
        THEN Result(st, TAI_ERROR_INVALID_HANDLE, 0, call)
      ELSE Result([st EXCEPT !.mem = mem_write(st.mem, r.owner_pid, r.target_address,
                                               r.original_content),
                             !.patches = st.patches \ {r}],
                  TAI_SUCCESS, 0, call)

\* teardown_all(): force-release every active record, innermost chain entry
\* first (lowest handle first among the innermost ones).
RECURSIVE teardown_all(_)
teardown_all(st) ==
  IF st.patches = {} THEN st
  ELSE LET inner == {r \in st.patches : r.kind = "Injection" \/ r.next_ref = ORIGINAL}
           pool  == IF inner = {} THEN st.patches ELSE inner
           r     == CHOOSE x \in pool : \A y \in pool : x.handle <= y.handle
           res   == IF r.kind = "Hook" THEN tai_hook_release(st, r.handle, r.handle)
                    ELSE tai_inject_release(st, r.handle)
       \* a failure is ignored: the record goes all the same
       IN  teardown_all([res.st EXCEPT !.patches = @ \ {r}])

\* An entry of the log of lifecycle steps: the step that ran and what it
\* reported.
Step(fn, ret) == [fn |-> fn, ret |-> ret]

\* Lifecycle Manager: the Patch Store comes up empty.
patches_init(st, r) ==
  Result([st EXCEPT !.sys.patches = (r >= 0), !.sys.steps = Append(@, Step("patches_init", r))],
         r, 0, <<>>)

\* Lifecycle Manager: every still active patch is reverted, the store is gone.
patches_deinit(st) ==
  LET t == teardown_all(st)
  IN  [t EXCEPT !.sys.patches = FALSE,
                !.sys.steps = Append(@, Step("patches_deinit", TAI_SUCCESS))]

(* ------------------- Process Registry (proc_map.c) --------------------- *)

proc_map_init(st, r) ==
  Result([st EXCEPT !.sys.proc_map = (r >= 0), !.sys.steps = Append(@, Step("proc_map_init", r))],
         r, 0, <<>>)

proc_map_deinit(st) ==
  [st EXCEPT !.sys.proc_map = FALSE,
             !.sys.steps = Append(@, Step("proc_map_deinit", TAI_SUCCESS))]

(* ----------------------- API layer (taihen.c) -------------------------- *)

\* addr | 1
SetThumbBit(addr) == IF addr % 2 = 0 THEN addr + 1 ELSE addr

\* What the Address Resolver hands back: its return value and, on success,
\* the address it stored through its last argument.
Resolved == [ret : ResolverErrors, addr : {0}] \cup [ret : {0}, addr : Addrs]

\* Faulty variant: the destination is passed for the hook function as well.
taiHookFunctionAbs_DestTwice(st, pid, dest_func, hook_func) ==
  tai_hook_func_abs(st, pid, dest_func, dest_func)

\* Faulty variant: the handle is dropped, success is reported as TAI_SUCCESS.
taiHookFunctionAbs_DropHandle(st, pid, dest_func, hook_func) ==
  [tai_hook_func_abs(st, pid, dest_func, hook_func) EXCEPT !.ret = IF @ < 0 THEN @ ELSE TAI_SUCCESS]

\* Faulty variant: reports success without asking the Patch Store for the install.
taiHookFunctionAbs_Stub(st, pid, dest_func, hook_func) ==
  Result(st, TAI_SUCCESS, 0, <<>>)

taiHookFunctionAbs(st, pid, dest_func, hook_func) ==
  tai_hook_func_abs(st, pid, dest_func, hook_func)

\* res: the outcome of module_get_export_func(pid, module, library_nid, func_nid, &func)
\* Faulty variant: the install is made a second time and that result returned.
taiHookFunctionExportForKernel_Twice(st, res, pid, hook_func) ==
  LET call == <<Call("module_get_export_func", pid, 0, 0)>>
      abs  == taiHookFunctionAbs(st, pid, res.addr, hook_func)
      agn  == taiHookFunctionAbs(abs.st, pid, res.addr, hook_func)
  IN  IF res.ret < 0 THEN Result(st, res.ret, 0, call)
      ELSE [agn EXCEPT !.calls = call \o abs.calls \o @]

taiHookFunctionExportForKernel(st, res, pid, hook_func) ==
  LET call == <<Call("module_get_export_func", pid, 0, 0)>>
      abs  == taiHookFunctionAbs(st, pid, res.addr, hook_func)
  IN  IF res.ret < 0 THEN Result(st, res.ret, 0, call)
      ELSE [abs EXCEPT !.calls = call \o @]

\* res: the outcome of module_get_import_func(pid, module, import_library_nid, import_func_nid, &stub)
\* Faulty variant: the resolver's result is returned in place of the install's.
taiHookFunctionImportForKernel_RetResolver(st, res, pid, hook_func) ==
  LET call == <<Call("module_get_import_func", pid, 0, 0)>>
      abs  == taiHookFunctionAbs(st, pid, res.addr, hook_func)
  IN  IF res.ret < 0 THEN Result(st, res.ret, 0, call)
      ELSE [abs EXCEPT !.calls = call \o @, !.ret = res.ret]

taiHookFunctionImportForKernel(st, res, pid, hook_func) ==
  LET call == <<Call("module_get_import_func", pid, 0, 0)>>
      abs  == taiHookFunctionAbs(st, pid, res.addr, hook_func)
  IN  IF res.ret < 0 THEN Result(st, res.ret, 0, call)
      ELSE [abs EXCEPT !.calls = call \o @]

\* res: the outcome of module_get_offset(pid, modid, segidx, offset, &addr)
\* Faulty variant: the resolver's return value is not checked.
taiHookFunctionOffsetForKernel_NoCheck(st, res, pid, thumb, hook_func) ==
  LET call == <<Call("module_get_offset", pid, 0, 0)>>
      addr == IF thumb # 0 THEN SetThumbBit(res.addr) ELSE res.addr
      abs  == taiHookFunctionAbs(st, pid, addr, hook_func)
  IN  [abs EXCEPT !.calls = call \o @]

\* Faulty variant: the Thumb bit is set whatever `thumb` says.
taiHookFunctionOffsetForKernel_AlwaysThumb(st, res, pid, thumb, hook_func) ==
  LET call == <<Call("module_get_offset", pid, 0, 0)>>
      abs  == taiHookFunctionAbs(st, pid, SetThumbBit(res.addr), hook_func)
  IN  IF res.ret < 0 THEN Result(st, res.ret, 0, call)
      ELSE [abs EXCEPT !.calls = call \o @]

\* Faulty variant: without `thumb` the lowest bit of the address is cleared.
taiHookFunctionOffsetForKernel_ClearBit(st, res, pid, thumb, hook_func) ==
  LET call == <<Call("module_get_offset", pid, 0, 0)>>
      addr == IF thumb # 0 THEN SetThumbBit(res.addr) ELSE 2 * (res.addr \div 2)
      abs  == taiHookFunctionAbs(st, pid, addr, hook_func)
  IN  IF res.ret < 0 THEN Result(st, res.ret, 0, call)
      ELSE [abs EXCEPT !.calls = call \o @]

taiHookFunctionOffsetForKernel(st, res, pid, thumb, hook_func) ==
  LET call == <<Call("module_get_offset", pid, 0, 0)>>
      addr == IF thumb # 0 THEN SetThumbBit(res.addr) ELSE res.addr
      abs  == taiHookFunctionAbs(st, pid, addr, hook_func)
  IN  IF res.ret < 0 THEN Result(st, res.ret, 0, call)
      ELSE [abs EXCEPT !.calls = call \o @]

\* Faulty variant: reports success without asking the Patch Store for the release.
taiHookReleaseForKernel_Stub(st, tai_uid, hook) ==
  Result(st, TAI_SUCCESS, 0, <<>>)

taiHookReleaseForKernel(st, tai_uid, hook) ==
  tai_hook_release(st, tai_uid, hook)

\* Faulty variant: the result of the Patch Store is dropped, success is reported.
taiInjectAbsForKernel_DropResult(st, pid, dest, src, size) ==
  [tai_inject_abs(st, pid, dest, src, size) EXCEPT !.ret = TAI_SUCCESS]

taiInjectAbsForKernel(st, pid, dest, src, size) ==
  tai_inject_abs(st, pid, dest, src, size)

\* res: the outcome of module_get_offset(pid, modid, segidx, offset, &addr)
\* Faulty variant: the result of the install is dropped, success is reported.
taiInjectDataForKernel_DropResult(st, res, pid, data, size) ==
  LET call == <<Call("module_get_offset", pid, 0, 0)>>
      abs  == taiInjectAbsForKernel(st, pid, res.addr, data, size)
  IN  IF res.ret < 0 THEN Result(st, res.ret, 0, call)
      ELSE [abs EXCEPT !.calls = call \o @, !.ret = TAI_SUCCESS]

taiInjectDataForKernel(st, res, pid, data, size) ==
  LET call == <<Call("module_get_offset", pid, 0, 0)>>
      abs  == taiInjectAbsForKernel(st, pid, res.addr, data, size)
  IN  IF res.ret < 0 THEN Result(st, res.ret, 0, call)
      ELSE [abs EXCEPT !.calls = call \o @]

\* Faulty variant: the result of the Patch Store is dropped, success is reported.
taiInjectReleaseForKernel_DropResult(st, tai_uid) ==
  [tai_inject_release(st, tai_uid) EXCEPT !.ret = TAI_SUCCESS]

\* Faulty variant: reports success without asking the Patch Store for the release.
taiInjectReleaseForKernel_Stub(st, tai_uid) ==
  Result(st, TAI_SUCCESS, 0, <<>>)

taiInjectReleaseForKernel(st, tai_uid) ==
  tai_inject_release(st, tai_uid)

(* ------------------ plugin loading (parser.h, hen.c) ------------------- *)

\* The longest plugin list of a configuration.
MaxPlugins ==
  CHOOSE n \in 0 .. 8 :
    /\ \A c \in 1 .. Len(ConfigTexts), t \in Titles : Len(ConfigTexts[c][t]) <= n
    /\ \E c \in 1 .. Len(ConfigTexts), t \in Titles : Len(ConfigTexts[c][t]) = n

\* What the parser and the plugin loads do in one run: the parser hands over
\* the first `upto` plugins of the title before it stops, and the load of the
\* i-th one reports rets[i].
ParseRuns == [upto : 0 .. MaxPlugins, rets : [1 .. MaxPlugins -> PluginResults]]

\* hen_load_plugin(path, param): the plugin is loaded into param.pid, or not.
hen_load_plugin(st, path, param, ret) ==
  Result(IF ret < 0 THEN st ELSE [st EXCEPT !.sys.plugins = @ \cup {<<param.pid, path>>}],
         ret, 0, <<Call("hen_load_plugin", param.pid, 0, <<path, param.flags>>)>>)

\* taihen_config_parse(config, titleid, handler, param): the handler is
\* called for the plugins of the title, in the order of the configuration;
\* what it reports is not looked at and nothing is reported back.
RECURSIVE taihen_config_parse(_, _, _, _, _, _)
taihen_config_parse(st, config, titleid, param, run, i) ==
  IF i > Len(config[titleid]) \/ i > run.upto THEN Result(st, 0, 0, <<>>)
  ELSE LET one  == hen_load_plugin(st, config[titleid][i], param, run.rets[i])
           rest == taihen_config_parse(one.st, config, titleid, param, run, i + 1)
       IN  [rest EXCEPT !.calls = one.calls \o @]

\* Faulty variant: a failed plugin load is reported to the caller.
taiLoadPluginsForTitleForKernel_Strict(st, pid, titleid, flags, run) ==
  LET param == [pid |-> pid, flags |-> flags]
      parse == taihen_config_parse(st, ConfigTexts[st.sys.g_config], titleid, param, run, 1)
      call  == <<Call("taihen_config_parse", pid, 0, <<titleid, flags>>)>>
      bad   == \E i \in 1 .. Len(parse.calls) : run.rets[i] < 0
  IN  IF st.sys.g_config # 0
        THEN Result(parse.st, IF bad THEN TAI_ERROR_SYSTEM ELSE TAI_SUCCESS, 0, call \o parse.calls)
      ELSE Result(st, TAI_ERROR_SYSTEM, 0, <<>>)

\* run: what taihen_config_parse and the plugin loads do in this call.
taiLoadPluginsForTitleForKernel(st, pid, titleid, flags, run) ==
  LET param == [pid |-> pid, flags |-> flags]
      parse == taihen_config_parse(st, ConfigTexts[st.sys.g_config], titleid, param, run, 1)
      call  == <<Call("taihen_config_parse", pid, 0, <<titleid, flags>>)>>
  IN  IF st.sys.g_config # 0
        THEN Result(parse.st, TAI_SUCCESS, 0, call \o parse.calls)
      ELSE Result(st, TAI_ERROR_SYSTEM, 0, <<>>)

(* ----------------------- baseline patches (hen.c) ---------------------- *)

\* The site of the system's own baseline hook.
HenPid == KERNEL_PID
HenAddr == 0

\* Installs the baseline hook.  r: what the step reports; a failing step
\* reports its error with the hook left installed or not (`left`).
hen_add_patches(st, r, left) ==
  LET ins == taiHookFunctionAbs(st, HenPid, HenAddr, HenHook)
      on  == [ins.st EXCEPT !.sys.hen_uid = ins.ret,
                            !.sys.steps = Append(@, Step("hen_add_patches", r))]
      off == [st EXCEPT !.sys.steps = Append(@, Step("hen_add_patches", r))]
  IN  IF ins.ret < 0
        THEN Result([st EXCEPT !.sys.steps = Append(@, Step("hen_add_patches", ins.ret))],
                    ins.ret, 0, ins.calls)
      ELSE IF r >= 0 \/ left THEN Result(on, r, 0, ins.calls)
      ELSE Result(off, r, 0, <<>>)

\* Removes the baseline hook; a failure is not reported.
hen_remove_patches(st) ==
  LET rel == taiHookReleaseForKernel(st, st.sys.hen_uid, st.sys.hen_uid)
  IN  [rel.st EXCEPT !.sys.hen_uid = 0,
                     !.sys.steps = Append(@, Step("hen_remove_patches", rel.ret))]

(* ------------------------ lifecycle (taihen.c) ------------------------- *)

\* Faulty variant: the result of patches_init is not looked at.
module_start_NoCheck(st, e) ==
  LET s1 == proc_map_init(st, e.proc_map)
      s2 == patches_init(s1.st, e.patches)
      s3 == hen_add_patches(s2.st, e.hen, e.left)
  IN  IF s1.ret < 0 THEN Result(s1.st, SCE_KERNEL_START_FAILED, 0, <<>>)
      ELSE IF s3.ret < 0 THEN Result(s3.st, SCE_KERNEL_START_FAILED, 0, s3.calls)
      ELSE Result(s3.st, SCE_KERNEL_START_SUCCESS, 0, s3.calls)

\* Faulty variant: a failing step undoes the steps that ran before it.
module_start_Rollback(st, e) ==
  LET s1 == proc_map_init(st, e.proc_map)
      s2 == patches_init(s1.st, e.patches)
      s3 == hen_add_patches(s2.st, e.hen, e.left)
  IN  IF s1.ret < 0 THEN Result(s1.st, SCE_KERNEL_START_FAILED, 0, <<>>)
      ELSE IF s2.ret < 0 THEN Result(proc_map_deinit(s2.st), SCE_KERNEL_START_FAILED, 0, <<>>)
      ELSE IF s3.ret < 0
        THEN Result(proc_map_deinit(patches_deinit(s3.st)), SCE_KERNEL_START_FAILED, 0, s3.calls)
      ELSE Result(s3.st, SCE_KERNEL_START_SUCCESS, 0, s3.calls)

\* e: what the three steps report, e.proc_map, e.patches, e.hen (and e.left).
module_start(st, e) ==
  LET s1 == proc_map_init(st, e.proc_map)
      s2 == patches_init(s1.st, e.patches)
      s3 == hen_add_patches(s2.st, e.hen, e.left)
  IN  IF s1.ret < 0 THEN Result(s1.st, SCE_KERNEL_START_FAILED, 0, <<>>)
      ELSE IF s2.ret < 0 THEN Result(s2.st, SCE_KERNEL_START_FAILED, 0, <<>>)
      ELSE IF s3.ret < 0 THEN Result(s3.st, SCE_KERNEL_START_FAILED, 0, s3.calls)
      ELSE Result(s3.st, SCE_KERNEL_START_SUCCESS, 0, s3.calls)

\* Faulty variant: the Patch Store is not torn down.
module_stop_NoDeinit(st) ==
  LET s1 == hen_remove_patches(st)
      s3 == proc_map_deinit(s1)
  IN  Result(s3, SCE_KERNEL_STOP_SUCCESS, 0, <<>>)

\* Faulty variant: a failure to remove the baseline patches ends the teardown.
module_stop_Abort(st) ==
  LET s1 == hen_remove_patches(st)
      s2 == patches_deinit(s1)
      s3 == proc_map_deinit(s2)
  IN  IF s1.sys.steps[Len(s1.sys.steps)].ret < 0 THEN Result(s1, SCE_KERNEL_STOP_SUCCESS, 0, <<>>)
      ELSE Result(s3, SCE_KERNEL_STOP_SUCCESS, 0, <<>>)

module_stop(st) ==
  LET s1 == hen_remove_patches(st)
      s2 == patches_deinit(s1)
      s3 == proc_map_deinit(s2)
  IN  Result(s3, SCE_KERNEL_STOP_SUCCESS, 0, <<>>)

(* --------------------------- history ----------------------------------- *)

NoCall ==
  [op |-> "none", pid |-> 0, addr |-> 0, arg |-> 0, uid |-> 0, thumb |-> 0,
   res |-> [ret |-> 0, addr |-> 0], ret |-> 0, hook |-> 0, calls |-> <<>>,
   pre |-> <<>>, fresh |-> FALSE, follows |-> FALSE, before |-> {}]

InstallOps ==
  {"taiHookFunctionAbs", "taiHookFunctionExportForKernel", "taiHookFunctionImportForKernel",
   "taiHookFunctionOffsetForKernel", "taiInjectAbsForKernel", "taiInjectDataForKernel"}

SymbolicOps == InstallOps \ {"taiHookFunctionAbs", "taiInjectAbsForKernel"}

ReleaseOps == {"taiHookReleaseForKernel", "taiInjectReleaseForKernel"}

\* The handles returned so far: those returned before the last call
\* (last.before), the one the last call returned if it was an install that
\* succeeded, and the handle of the baseline hook after module_start.
Issued ==
  last.before
    \cup (IF last.op \in InstallOps /\ last.ret >= 0 THEN {last.ret} ELSE {})
    \cup (IF last.op = "module_start" /\ sys.hen_uid # 0 THEN {sys.hen_uid} ELSE {})

\* The address a caller asks to have patched: the resolved address, as a
\* Thumb function when the caller says it is one.
Target(res, thumb) == IF thumb # 0 THEN SetThumbBit(res.addr) ELSE res.addr

\* The install call a caller made and what came back.  pre, fresh: the content
\* of the addressed site and whether it was unpatched when the call was made.
InstallCall(op, res, pid, thumb, arg, out) ==
  LET addr == Target(res, thumb)
  IN  [NoCall EXCEPT !.op = op, !.res = res, !.pid = pid, !.addr = addr, !.thumb = thumb,
                     !.arg = arg, !.ret = out.ret, !.hook = out.hook, !.calls = out.calls,
                     !.pre = mem[pid][addr], !.fresh = (PatchesAt(patches, pid, addr) = {}),
                     !.before = Issued]

HeldIdx(tai_uid) == {i \in 1 .. Len(held) : held[i].uid = tai_uid}

\* A release follows an install when it is the next call and is given the
\* handle that install returned for a site that was unpatched; pid, addr and
\* pre are then those of the install.
ReleaseCall(op, tai_uid, hook, out) ==
  LET fol == /\ last.op \in {"taiHookFunctionAbs", "taiInjectAbsForKernel"}
             /\ last.ret > 0 /\ last.ret = tai_uid /\ last.fresh
             /\ (op = "taiHookReleaseForKernel") = (last.op = "taiHookFunctionAbs")
      own == HeldIdx(tai_uid)
      h   == held[CHOOSE i \in own : TRUE]
  IN  [NoCall EXCEPT !.op = op, !.uid = tai_uid, !.hook = hook, !.ret = out.ret,
                     !.calls = out.calls, !.follows = fol,
                     !.pid = IF fol THEN last.pid ELSE IF own # {} THEN h.pid ELSE 0,
                     !.addr = IF fol THEN last.addr ELSE IF own # {} THEN h.addr ELSE 0,
                     !.pre = IF fol THEN last.pre ELSE <<>>,
                     !.before = Issued]

\* What the callers hold after an install: a handle that came back is held
\* for the site and hook function the caller asked for, in the order of the
\* installs.
Holding(out, kind, pid, addr, func) ==
  IF out.ret < 0 THEN held
  ELSE Append(held, [uid |-> out.ret, pid |-> pid, addr |-> addr, kind |-> kind, func |-> func])

\* What the callers hold after a release: a handle released with success is
\* given up.
Released(tai_uid, out) ==
  IF out.ret = TAI_SUCCESS THEN SelectSeq(held, LAMBDA h : h.uid # tai_uid) ELSE held

Finish(out, life) ==
  /\ mem' = out.st.mem
  /\ patches' = out.st.patches
  /\ next_uid' = out.st.next_uid
  /\ sys' = [out.st.sys EXCEPT !.life = life]
  /\ UNCHANGED <<mutex, thr>>

(* --------------------------- actions ----------------------------------- *)

Threads == 1 .. NumThreads

NoReq == [op |-> "none", pid |-> 0, addr |-> 0, arg |-> 0, uid |-> 0]

\* A caller that is in no call.  In a call: the request, and once the store
\* has decided, the return value and what is still to be applied (records to
\* add and to delete, the next handle, the memory writes).
Idle == [pc |-> "idle", req |-> NoReq, ret |-> 0, add |-> {}, del |-> {}, nuid |-> 0, wr |-> {}]

Init ==
  /\ mem = [p \in Pids |-> [a \in Addrs |-> OrigContent(p, a)]]
  /\ patches = {}
  /\ next_uid = 1
  /\ sys = [life |-> "unloaded", proc_map |-> FALSE, patches |-> FALSE,
            hen_uid |-> 0, steps |-> <<>>, g_config |-> 0, plugins |-> {}]
  /\ held = <<>>
  /\ last = NoCall
  /\ mutex = 0
  /\ thr = [t \in Threads |-> Idle]

StepResults == {TAI_SUCCESS, TAI_ERROR_SYSTEM}

\* The module manager loads the module: module_start runs once.
ModuleStart ==
  /\ sys.life = "unloaded"
  /\ \E e \in [proc_map : StepResults, patches : StepResults, hen : StepResults, left : BOOLEAN] :
       LET out == module_start(St, e)
           uid == out.st.sys.hen_uid
       IN  /\ Finish(out, IF out.ret = SCE_KERNEL_START_SUCCESS THEN "started" ELSE "failed")
           \* the baseline hook is held by the system itself
           /\ held' = IF uid = 0 THEN held
                      ELSE Append(held, [uid |-> uid, pid |-> HenPid, addr |-> HenAddr,
                                         kind |-> "Hook", func |-> HenHook])
           /\ last' = [NoCall EXCEPT !.op = "module_start", !.ret = out.ret, !.calls = out.calls,
                                     !.before = Issued]

\* The module manager unloads the module: module_stop runs once.  The system
\* gives up its baseline hook; the callers keep the handles they have.
ModuleStop ==
  /\ sys.life = "started"
  /\ LET out == module_stop(St)
     IN  /\ Finish(out, "stopped")
         /\ held' = SelectSeq(held, LAMBDA h : h.uid # sys.hen_uid)
         /\ last' = [NoCall EXCEPT !.op = "module_stop", !.ret = out.ret, !.before = Issued]

\* Callers install while the module is loaded and the store has handles left.
CanInstall == sys.life = "started" /\ next_uid <= MaxUid

\* Callers may still try a release after the module was unloaded.
CanRelease == sys.life \in {"started", "stopped"}

HookFunctionAbs ==
  /\ CanInstall
  /\ \E pid \in Pids, dest_func \in Addrs, hook_func \in HookFuncs :
       LET out == taiHookFunctionAbs(St, pid, dest_func, hook_func)
           res == [ret |-> 0, addr |-> dest_func]
       IN  /\ Finish(out, sys.life)
           /\ held' = Holding(out, "Hook", pid, dest_func, hook_func)
           /\ last' = InstallCall("taiHookFunctionAbs", res, pid, 0, hook_func, out)

HookFunctionExport ==
  /\ CanInstall
  /\ \E res \in Resolved, pid \in Pids, hook_func \in HookFuncs :
       LET out == taiHookFunctionExportForKernel(St, res, pid, hook_func)
       IN  /\ Finish(out, sys.life)
           /\ held' = Holding(out, "Hook", pid, res.addr, hook_func)
           /\ last' = InstallCall("taiHookFunctionExportForKernel", res, pid, 0, hook_func, out)

HookFunctionImport ==
  /\ CanInstall
  /\ \E res \in Resolved, pid \in Pids, hook_func \in HookFuncs :
       LET out == taiHookFunctionImportForKernel(St, res, pid, hook_func)
       IN  /\ Finish(out, sys.life)
           /\ held' = Holding(out, "Hook", pid, res.addr, hook_func)
           /\ last' = InstallCall("taiHookFunctionImportForKernel", res, pid, 0, hook_func, out)

HookFunctionOffset ==
  /\ CanInstall
  /\ \E res \in Resolved, pid \in Pids, thumb \in {0, 1}, hook_func \in HookFuncs :
       LET out == taiHookFunctionOffsetForKernel(St, res, pid, thumb, hook_func)
       IN  /\ Finish(out, sys.life)
           /\ held' = Holding(out, "Hook", pid, Target(res, thumb), hook_func)
           /\ last' = InstallCall("taiHookFunctionOffsetForKernel", res, pid, thumb, hook_func, out)

HookRelease ==
  /\ CanRelease
  /\ \E tai_uid \in Uids :
       \* the caller passes the reference it was given with the handle
       LET out == taiHookReleaseForKernel(St, tai_uid, tai_uid)
       IN  /\ Finish(out, sys.life)
           /\ held' = Released(tai_uid, out)
           /\ last' = ReleaseCall("taiHookReleaseForKernel", tai_uid, tai_uid, out)

InjectAbs ==
  /\ CanInstall
  /\ \E pid \in Pids, dest \in Addrs, src \in SrcBufs, size \in Sizes :
       LET out == taiInjectAbsForKernel(St, pid, dest, src, size)
           res == [ret |-> 0, addr |-> dest]
       IN  /\ Finish(out, sys.life)
           /\ held' = Holding(out, "Injection", pid, dest, 0)
           /\ last' = InstallCall("taiInjectAbsForKernel", res, pid, 0, size, out)

InjectData ==
  /\ CanInstall
  /\ \E res \in Resolved, pid \in Pids, data \in SrcBufs, size \in Sizes :
       LET out == taiInjectDataForKernel(St, res, pid, data, size)
       IN  /\ Finish(out, sys.life)
           /\ held' = Holding(out, "Injection", pid, res.addr, 0)
           /\ last' = InstallCall("taiInjectDataForKernel", res, pid, 0, size, out)

InjectRelease ==
  /\ CanRelease
  /\ \E tai_uid \in Uids :
       LET out == taiInjectReleaseForKernel(St, tai_uid)
       IN  /\ Finish(out, sys.life)
           /\ held' = Released(tai_uid, out)
           /\ last' = ReleaseCall("taiInjectReleaseForKernel", tai_uid, 0, out)

Next ==
  \/ ModuleStart
  \/ ModuleStop
  \/ HookFunctionAbs
  \/ HookFunctionExport
  \/ HookFunctionImport
  \/ HookFunctionOffset
  \/ HookRelease
  \/ InjectAbs
  \/ InjectData
  \/ InjectRelease

Spec == Init /\ [][Next]_vars

(* ------------------- concurrent callers (SpecConc) --------------------- *)

\* The sites the concurrent callers work on, the hook function of each
\* caller, and the requests a caller may make.
ConcAddrs == {0, 1}

ConcFunc(t) == HenHook + t

Requests(t) ==
  [op : {"taiHookFunctionAbs"}, pid : {KERNEL_PID}, addr : ConcAddrs,
   arg : {ConcFunc(t)}, uid : {0}]
  \cup [op : {"taiInjectAbsForKernel"}, pid : {KERNEL_PID}, addr : ConcAddrs,
        arg : Sizes, uid : {0}]
  \cup [op : ReleaseOps, pid : {0}, addr : {0}, arg : {0}, uid : 1 .. MaxUid]

\* The API call a request stands for, made on state st.
Serve(st, req) ==
  CASE req.op = "taiHookFunctionAbs" ->
         taiHookFunctionAbs(st, req.pid, req.addr, req.arg)
    [] req.op = "taiInjectAbsForKernel" ->
         taiInjectAbsForKernel(st, req.pid, req.addr, CHOOSE b \in SrcBufs : TRUE, req.arg)
    [] req.op = "taiHookReleaseForKernel" ->
         taiHookReleaseForKernel(st, req.uid, req.uid)
    [] req.op = "taiInjectReleaseForKernel" ->
         taiInjectReleaseForKernel(st, req.uid)

\* The state right after a module_start in which every step succeeded.
Started ==
  LET st0 == [mem |-> [p \in Pids |-> [a \in Addrs |-> OrigContent(p, a)]], patches |-> {},
              next_uid |-> 1,
              sys |-> [life |-> "unloaded", proc_map |-> FALSE, patches |-> FALSE,
                       hen_uid |-> 0, steps |-> <<>>, g_config |-> 0, plugins |-> {}]]
      e   == [proc_map |-> TAI_SUCCESS, patches |-> TAI_SUCCESS, hen |-> TAI_SUCCESS,
              left |-> FALSE]
  IN  module_start(st0, e).st

InitConc ==
  /\ mem = Started.mem
  /\ patches = Started.patches
  /\ next_uid = Started.next_uid
  /\ sys = [Started.sys EXCEPT !.life = "started"]
  /\ held = <<[uid |-> Started.sys.hen_uid, pid |-> HenPid, addr |-> HenAddr,
               kind |-> "Hook", func |-> HenHook]>>
  /\ last = NoCall
  /\ mutex = 0
  /\ thr = [t \in Threads |-> Idle]

\* A caller enters an API function.
Invoke(t) ==
  /\ thr[t].pc = "idle"
  /\ \E req \in Requests(t) : thr' = [thr EXCEPT ![t].pc = "lock", ![t].req = req]
  /\ UNCHANGED <<mem, patches, next_uid, sys, held, last, mutex>>

\* Faulty variant: the store lets every caller in, whoever is inside.
StoreFree_NoLock(m) == TRUE

\* Patch Store: the store-wide lock is free for the one who takes it.
StoreFree(m) == m = 0

\* Patch Store: the caller takes the store-wide lock.
Acquire(t) ==
  /\ thr[t].pc = "lock"
  /\ StoreFree(mutex)
  /\ mutex' = t
  /\ thr' = [thr EXCEPT ![t].pc = "check"]
  /\ UNCHANGED <<mem, patches, next_uid, sys, held, last>>

\* Patch Store: the request is decided on the table and the memory as they
\* are: the return value, the bookkeeping and the memory writes to make.
Check(t) ==
  /\ thr[t].pc = "check"
  /\ next_uid <= MaxUid
  /\ LET out == Serve(St, thr[t].req)
     IN  thr' = [thr EXCEPT ![t].pc = "book",
                            ![t].ret = out.ret,
                            ![t].add = out.st.patches \ patches,
                            ![t].del = patches \ out.st.patches,
                            ![t].nuid = out.st.next_uid,
                            ![t].wr = {[pid |-> s[1], addr |-> s[2], content |-> out.st.mem[s[1]][s[2]]] :
                                         s \in {x \in Pids \X Addrs : out.st.mem[x[1]][x[2]] # mem[x[1]][x[2]]}}]
  /\ UNCHANGED <<mem, patches, next_uid, sys, held, last, mutex>>

\* Patch Store: the bookkeeping step (insert, chain link, delete).
Book(t) ==
  /\ thr[t].pc = "book"
  /\ patches' = (patches \ thr[t].del) \cup thr[t].add
  /\ next_uid' = thr[t].nuid
  /\ thr' = [thr EXCEPT ![t].pc = "write", ![t].add = {}, ![t].del = {}]
  /\ UNCHANGED <<mem, sys, held, last, mutex>>

\* What the callers hold once the call of t has taken effect.
HeldAfter(t) ==
  LET req == thr[t].req
      out == [ret |-> thr[t].ret]
  IN  IF req.op = "taiHookFunctionAbs" THEN Holding(out, "Hook", req.pid, req.addr, req.arg)
      ELSE IF req.op = "taiInjectAbsForKernel" THEN Holding(out, "Injection", req.pid, req.addr, 0)
      ELSE Released(req.uid, out)

\* Memory Mutator: the memory-write step.
Write(t) ==
  /\ thr[t].pc = "write"
  /\ mem' = [p \in Pids |-> [a \in Addrs |->
               IF \E w \in thr[t].wr : w.pid = p /\ w.addr = a
                 THEN (CHOOSE w \in thr[t].wr : w.pid = p /\ w.addr = a).content
                 ELSE mem[p][a]]]
  /\ held' = HeldAfter(t)
  /\ thr' = [thr EXCEPT ![t].pc = "unlock", ![t].wr = {}]
  /\ UNCHANGED <<patches, next_uid, sys, last, mutex>>

\* Patch Store: the lock is given back and the call returns.
Unlock(t) ==
  /\ thr[t].pc = "unlock"
  /\ mutex' = 0
  /\ thr' = [thr EXCEPT ![t].pc = "done"]
  /\ UNCHANGED <<mem, patches, next_uid, sys, held, last>>

NextConc ==
  \E t \in Threads :
    \/ Invoke(t)
    \/ Acquire(t)
    \/ Check(t)
    \/ Book(t)
    \/ Write(t)
    \/ Unlock(t)

SpecConc == InitConc /\ [][NextConc]_vars

(* --------------------- plugin loading (SpecPlugins) -------------------- *)

\* hen.c reads the configuration: g_config points to its text.
HenLoadConfig ==
  /\ sys.g_config = 0
  /\ \E c \in 1 .. Len(ConfigTexts) : sys' = [sys EXCEPT !.g_config = c]
  /\ last' = [NoCall EXCEPT !.op = "hen_load_config", !.before = Issued]
  /\ UNCHANGED <<mem, patches, next_uid, held, mutex, thr>>

\* hen.c drops the configuration (before it reads it again).
HenFreeConfig ==
  /\ sys.g_config # 0
  /\ sys' = [sys EXCEPT !.g_config = 0]
  /\ last' = [NoCall EXCEPT !.op = "hen_free_config", !.before = Issued]
  /\ UNCHANGED <<mem, patches, next_uid, held, mutex, thr>>

LoadPluginsForTitle ==
  /\ sys.life = "started"
  /\ \E pid \in Pids, titleid \in Titles, flags \in Flags, run \in ParseRuns :
       LET out == taiLoadPluginsForTitleForKernel(St, pid, titleid, flags, run)
       IN  /\ Finish(out, sys.life)
           /\ held' = held
           /\ last' = [NoCall EXCEPT !.op = "taiLoadPluginsForTitleForKernel", !.pid = pid,
                                     !.arg = [titleid |-> titleid, flags |-> flags, run |-> run],
                                     !.ret = out.ret, !.calls = out.calls, !.before = Issued]

NextPlugins ==
  \/ HenLoadConfig
  \/ HenFreeConfig
  \/ LoadPluginsForTitle

\* Starts in the state after a successful module_start (InitConc).
SpecPlugins == InitConc /\ [][NextPlugins]_vars

(* ======================== verified properties ========================== *)

Sites == Pids \X Addrs

\* The hooks the callers hold at a site, oldest first (positions in held).
HeldHooks(pid, addr) ==
  {i \in 1 .. Len(held) : held[i].kind = "Hook" /\ held[i].pid = pid /\ held[i].addr = addr}

HeldAt(pid, addr) == {i \in 1 .. Len(held) : held[i].pid = pid /\ held[i].addr = addr}

Max(S) == CHOOSE x \in S : \A y \in S : y <= x

Running == sys.life \in {"started", "failed"}

\* What a site holds when `content` lies over its original content.
Over(pid, addr, content) ==
  [i \in 1 .. SiteLen |-> IF i <= Len(content) THEN content[i] ELSE OrigContent(pid, addr)[i]]

\* C1: an install by absolute address (hook or injection) on an unpatched
\* site that succeeds, followed at once by a successful release of the handle
\* it returned, leaves the site's memory cell for cell as it was before the
\* install and leaves no record for the site in the Patch Store.
C1_InstallReleaseRestores ==
  (last.op \in ReleaseOps /\ last.follows /\ last.ret = TAI_SUCCESS)
    => /\ mem[last.pid][last.addr] = last.pre
       /\ PatchesAt(patches, last.pid, last.addr) = {}

\* An injection into the user process was released right after its install.
C1_Witness ==
  /\ last.op = "taiInjectReleaseForKernel" /\ last.follows /\ last.ret = TAI_SUCCESS
  /\ last.pid # KERNEL_PID
  /\ mem[last.pid][last.addr] = OrigContent(last.pid, last.addr)

\* The record the store keeps for a handle the callers hold.
RecordOf(i) == {r \in patches : r.handle = held[i].uid /\ r.kind = held[i].kind
                                 /\ r.owner_pid = held[i].pid /\ r.target_address = held[i].addr}

\* The next older hook still held at the same site (0: none).
OlderHeld(i) ==
  LET older == {j \in HeldHooks(held[i].pid, held[i].addr) : j < i}
  IN  IF older = {} THEN 0 ELSE Max(older)

\* C2: whatever the order of the releases, every hook still in a chain calls
\* through to the next older hook still in the chain, or to the captured
\* original content when no older hook is left; and a site whose hooks have
\* all been released holds the content it had before the first hook.
C2_ChainCallThrough ==
  Running =>
    /\ \A i \in 1 .. Len(held) : held[i].kind = "Hook" =>
         /\ RecordOf(i) # {}
         /\ \A r \in RecordOf(i) :
              IF OlderHeld(i) = 0
                THEN /\ r.next_ref = ORIGINAL
                     /\ r.original_content =
                          SubSeq(OrigContent(r.owner_pid, r.target_address), 1, HOOK_SIZE)
                ELSE r.next_ref = held[OlderHeld(i)].uid
    /\ \A s \in Sites : HeldAt(s[1], s[2]) = {} => mem[s[1]][s[2]] = OrigContent(s[1], s[2])

\* A hook that was not the topmost one was released: a younger hook of the
\* same site is left and now calls through to the original content.
C2_Witness ==
  /\ last.op = "taiHookReleaseForKernel" /\ last.ret = TAI_SUCCESS
  /\ \E r \in HooksAt(patches, last.pid, last.addr) :
       r.handle > last.uid /\ r.next_ref = ORIGINAL

\* C3: while hooks are held at a site, its memory holds the redirect to the
\* hook function of the most recently installed hook that was not released;
\* a site with neither a hook nor an injection holds its original content.
C3_TopmostInMemory ==
  Running =>
    \A s \in Sites :
      /\ HeldHooks(s[1], s[2]) # {} =>
           mem[s[1]][s[2]] = Over(s[1], s[2], Redirect(held[Max(HeldHooks(s[1], s[2]))].func))
      /\ HeldAt(s[1], s[2]) = {} => mem[s[1]][s[2]] = OrigContent(s[1], s[2])

\* The topmost of three hooks was released; the site redirects to the next
\* older hook, whose hook function is another one.
C3_Witness ==
  /\ last.op = "taiHookReleaseForKernel" /\ last.ret = TAI_SUCCESS
  /\ Cardinality(HeldHooks(last.pid, last.addr)) = 2
  /\ \A i \in HeldHooks(last.pid, last.addr) : held[i].uid < last.uid
  /\ \E i, j \in HeldHooks(last.pid, last.addr) : held[i].func # held[j].func

StoreUids(ps) == {r.handle : r \in ps}

StoreInstalls == {"tai_hook_func_abs", "tai_inject_abs"}

\* C5: a release given a handle that nobody holds (never issued, or released
\* before) returns the InvalidHandle error and changes neither target memory
\* nor any record or chain of the Patch Store.
C5_StaleRelease ==
  [][(last'.op \in ReleaseOps /\ HeldIdx(last'.uid) = {})
       => /\ last'.ret = TAI_ERROR_INVALID_HANDLE
          /\ mem' = mem
          /\ patches' = patches]_vars

\* A hook handle that was issued and released is released a second time
\* while other patches are active.
C5_Witness ==
  /\ last.op = "taiHookReleaseForKernel" /\ last.ret = TAI_ERROR_INVALID_HANDLE
  /\ last.uid >= 1 /\ last.uid < next_uid /\ HeldIdx(last.uid) = {}
  /\ sys.life = "started" /\ patches # {}

\* C6: a symbolic install whose resolution fails returns the resolver's
\* negative result, makes no install call to the Patch Store, creates no
\* record and writes no target memory.
C6_ResolutionFailed ==
  [][(last'.op \in SymbolicOps /\ last'.res.ret < 0)
       => /\ last'.ret < 0
          /\ last'.ret = last'.res.ret
          /\ \A i \in 1 .. Len(last'.calls) : last'.calls[i].fn \notin StoreInstalls
          /\ patches' = patches
          /\ next_uid' = next_uid
          /\ mem' = mem]_vars

\* An inject by offset failed in the resolver.
C6_Witness ==
  /\ last.op = "taiInjectDataForKernel"
  /\ last.res.ret = TAI_ERROR_INVALID_MODULE /\ last.ret = TAI_ERROR_INVALID_MODULE
  /\ Len(last.calls) = 1

C9_InjectPatchExists ==
  [][(last'.op = "taiInjectAbsForKernel" /\ HeldAt(last'.pid, last'.addr) # {})
       => /\ last'.ret = TAI_ERROR_PATCH_EXISTS
          /\ patches' = patches
          /\ next_uid' = next_uid
          /\ mem' = mem]_vars

\* An injection was refused on a site that carries a hook chain.
C9_Witness ==
  /\ last.op = "taiInjectAbsForKernel" /\ last.ret = TAI_ERROR_PATCH_EXISTS
  /\ HooksAt(patches, last.pid, last.addr) # {}

\* C10: an install whose target the Process Registry reports as restricted
\* for the pid returns InvalidRestrictedAddress (TAI_ERROR_INVALID_KERNEL_ADDR),
\* creates no record and writes no target memory.
C10_RestrictedAddress ==
  [][(last'.op \in InstallOps /\ last'.res.ret >= 0 /\ is_restricted(last'.pid, last'.addr))
       => /\ last'.ret = TAI_ERROR_INVALID_KERNEL_ADDR
          /\ patches' = patches
          /\ next_uid' = next_uid
          /\ mem' = mem]_vars

\* An injection into the shared memory region was asked for the kernel.
C10_Witness ==
  /\ last.op = "taiInjectAbsForKernel" /\ last.ret = TAI_ERROR_INVALID_KERNEL_ADDR
  /\ last.pid = KERNEL_PID /\ last.addr \in SharedRegion

\* C13: a handle returned by an install that succeeds differs from every
\* handle returned before, released or not; the handles the callers hold and
\* the handles of the records in the store are pairwise distinct; and a
\* handle that was returned and released refers to no record, so it cannot
\* release a newer patch.
C13_HandleUnique ==
  /\ (last.op \in InstallOps /\ last.ret >= 0) => last.ret \notin last.before
  /\ \A i, j \in 1 .. Len(held) : held[i].uid = held[j].uid => i = j
  /\ \A r, q \in patches : r.handle = q.handle => r = q
  /\ \A h \in Issued : HeldIdx(h) = {} => ByHandle(patches, h) = {}

\* An install on an unpatched site returned a handle after two handles had
\* been returned, one of which had been released.
C13_Witness ==
  /\ last.op \in InstallOps /\ last.ret > 0 /\ last.fresh
  /\ Cardinality(last.before) >= 2
  /\ \E h \in last.before : HeldIdx(h) = {}
  /\ \E h \in last.before : HeldIdx(h) # {}

\* No site is patched but untracked: a site whose memory differs from its
\* original content has an active record.
Tracked ==
  \A s \in Sites :
    mem[s[1]][s[2]] # OrigContent(s[1], s[2]) => PatchesAt(patches, s[1], s[2]) # {}

StoreCalls(calls) == SelectSeq(calls, LAMBDA c : c.fn \in StoreInstalls)

\* The symbolic installs that hand the resolved address on as it is.
ResolveOnlyOps ==
  {"taiHookFunctionExportForKernel", "taiHookFunctionImportForKernel", "taiInjectDataForKernel"}

\* C17: a hook by export, a hook by import or an inject by offset whose
\* resolution succeeds with address a does what the by-absolute-address
\* install does for the caller's pid, a and the caller's hook function (or
\* source bytes and size): it makes that one install call, returns its
\* result (handle or negative error) and leaves the state it leaves.
C17_ResolveThenInstall ==
  [][(last'.op \in ResolveOnlyOps /\ last'.res.ret >= 0)
       => \E src \in SrcBufs :
            LET ref == IF last'.op = "taiInjectDataForKernel"
                         THEN taiInjectAbsForKernel(St, last'.pid, last'.res.addr, src, last'.arg)
                         ELSE taiHookFunctionAbs(St, last'.pid, last'.res.addr, last'.arg)
            IN  /\ StoreCalls(last'.calls) = ref.calls
                /\ Len(ref.calls) = 1
                /\ ref.calls[1].pid = last'.pid /\ ref.calls[1].addr = last'.res.addr
                /\ last'.ret = ref.ret
                /\ last'.hook = ref.hook
                /\ mem' = ref.st.mem
                /\ patches' = ref.st.patches
                /\ next_uid' = ref.st.next_uid]_vars

\* A hook by export resolved to a site that carried a hook and returned the
\* handle of the new chain entry.
C17_Witness ==
  /\ last.op = "taiHookFunctionExportForKernel" /\ last.res.ret >= 0
  /\ last.ret > 0 /\ ~last.fresh
  /\ \E r \in HooksAt(patches, last.pid, last.res.addr) :
       r.handle = last.ret /\ r.hook_function = last.arg

\* addr with its lowest bit set.
WithLowBit(addr) == 2 * (addr \div 2) + 1

\* C18: the hook by offset hands the install the resolved address with its
\* lowest bit set when thumb is not zero and the resolved address itself
\* when thumb is zero; the inject by offset hands the install the resolved
\* address itself.  The record of a success is at that address.
C18_ThumbBit ==
  (last.op \in {"taiHookFunctionOffsetForKernel", "taiInjectDataForKernel"} /\ last.res.ret >= 0)
    => LET sc == StoreCalls(last.calls)
           to == IF last.op = "taiHookFunctionOffsetForKernel" /\ last.thumb # 0
                   THEN WithLowBit(last.res.addr) ELSE last.res.addr
       IN  /\ Len(sc) = 1
           /\ sc[1].addr = to
           /\ last.ret > 0 => \E r \in PatchesAt(patches, last.pid, to) : r.handle = last.ret

\* A hook by offset for a Thumb function resolved to an even address and
\* was installed at the address above it.
C18_Witness ==
  /\ last.op = "taiHookFunctionOffsetForKernel" /\ last.thumb # 0
  /\ last.res.ret >= 0 /\ last.res.addr % 2 = 0 /\ last.ret > 0
  /\ \E r \in HooksAt(patches, last.pid, last.res.addr + 1) : r.handle = last.ret

\* The steps of module_start and of module_stop, in the order of the code.
StartOrder == <<"proc_map_init", "patches_init", "hen_add_patches">>

StopOrder == <<"hen_remove_patches", "patches_deinit", "proc_map_deinit">>

\* The step that undoes a step of module_start.
Undoes(fn) ==
  CASE fn = "proc_map_init" -> "proc_map_deinit"
    [] fn = "patches_init" -> "patches_deinit"
    [] fn = "hen_add_patches" -> "hen_remove_patches"

\* The part of the step log that module_start wrote, and the part that
\* module_stop wrote.
StartSteps == SubSeq(sys.steps, 1, IF Len(sys.steps) < 3 THEN Len(sys.steps) ELSE 3)

StopSteps == SubSeq(sys.steps, 4, Len(sys.steps))

C16_StopOrder ==
  sys.life = "stopped" =>
    /\ Len(StopSteps) = 3
    /\ \A i \in 1 .. 3 : StopSteps[i].fn = StopOrder[i]
    /\ \A i \in 1 .. 3 : StopSteps[i].fn = Undoes(StartSteps[4 - i].fn)
    /\ ~sys.proc_map /\ ~sys.patches
    /\ last.op = "module_stop" => last.ret = SCE_KERNEL_STOP_SUCCESS

\* module_stop ran to its end although the removal of the baseline hook had
\* failed: a caller had released that hook before.
C16_Witness ==
  /\ sys.life = "stopped" /\ last.op = "module_stop"
  /\ Len(StopSteps) = 3 /\ StopSteps[1].ret < 0
  /\ StopSteps[3].fn = "proc_map_deinit"

\* C19: module_start undoes nothing when it fails: no deinit step runs; after
\* a failure of patches_init the Process Registry is still initialised; after
\* a failure of hen_add_patches the Process Registry and the Patch Store are
\* still initialised and a baseline hook the step left installed is still in
\* the store and in memory.
C19_NoRollback ==
  sys.life = "failed" =>
    /\ \A i \in 1 .. Len(sys.steps) : \E k \in 1 .. 3 : sys.steps[i].fn = StartOrder[k]
    /\ Len(sys.steps) = 2 => sys.proc_map
    /\ Len(sys.steps) = 3 =>
         /\ sys.proc_map /\ sys.patches
         /\ sys.hen_uid # 0 =>
              /\ \E r \in HooksAt(patches, HenPid, HenAddr) :
                   r.handle = sys.hen_uid /\ r.hook_function = HenHook
              /\ mem[HenPid][HenAddr] = Over(HenPid, HenAddr, Redirect(HenHook))
         /\ sys.hen_uid = 0 => patches = {}

\* module_start failed in hen_add_patches, which left its hook installed.
C19_Witness ==
  /\ sys.life = "failed" /\ Len(sys.steps) = 3 /\ sys.steps[3].ret < 0
  /\ sys.proc_map /\ sys.patches /\ sys.hen_uid # 0 /\ patches # {}

\* The callers whose call has taken effect.
Executed(t) == thr[t].pc \in {"unlock", "done"}

\* The callers whose injection install on a site has taken effect.
Injectors(pid, addr) ==
  {t \in Threads : /\ Executed(t) /\ thr[t].req.op = "taiInjectAbsForKernel"
                   /\ thr[t].req.pid = pid /\ thr[t].req.addr = addr}

\* Nothing but injection installs works on the site: no caller inside the
\* store hooks it, and none releases what the injection installs returned.
OnlyInjectors(pid, addr) ==
  \A u \in Threads : thr[u].pc \notin {"idle", "lock", "check"} =>
    /\ thr[u].req.op = "taiHookFunctionAbs" => ~(thr[u].req.pid = pid /\ thr[u].req.addr = addr)
    /\ thr[u].req.op \in ReleaseOps =>
         \A t \in Injectors(pid, addr) : thr[u].req.uid # thr[t].ret

\* C4: of the concurrent injection installs on one site that was unpatched,
\* exactly one returns a handle and every other one returns PatchExists; the
\* one record has captured the content the memory held before the calls; and
\* no state has two independent records for one site.
C4_ConcurrentInject ==
  \A s \in Sites :
    LET pid == s[1]
        addr == s[2]
        I == Injectors(pid, addr)
    IN  /\ Cardinality(InjectionsAt(patches, pid, addr)) <= 1
        /\ InjectionsAt(patches, pid, addr) # {} => HooksAt(patches, pid, addr) = {}
        /\ (PatchesAt(Started.patches, pid, addr) = {} /\ OnlyInjectors(pid, addr) /\ I # {})
             => \E w \in I :
                  /\ thr[w].ret > 0
                  /\ \A t \in I \ {w} : thr[t].ret = TAI_ERROR_PATCH_EXISTS
                  /\ \E r \in patches :
                       /\ PatchesAt(patches, pid, addr) = {r}
                       /\ r.handle = thr[w].ret /\ r.kind = "Injection"
                       /\ r.original_content = SubSeq(OrigContent(pid, addr), 1, thr[w].req.arg)

\* Two callers were in their injection install on the same unpatched site at
\* the same time; the second one to enter the store got PatchExists.
C4_Witness ==
  \E t, u \in Threads :
    /\ t # u /\ thr[t].pc = "done" /\ thr[u].pc = "done"
    /\ {t, u} \subseteq Injectors(KERNEL_PID, 1)
    /\ thr[t].req.arg # thr[u].req.arg
    /\ thr[t].ret > 0 /\ thr[u].ret = TAI_ERROR_PATCH_EXISTS

\* No caller is between its bookkeeping step and its memory write.
Settled == \A t \in Threads : thr[t].pc # "write"

\* The callers whose call has taken effect, in every order.
Orders ==
  LET E == {t \in Threads : Executed(t)}
  IN  {o \in [1 .. Cardinality(E) -> E] : \A i, j \in 1 .. Cardinality(E) : o[i] = o[j] => i = j}

\* The calls of the callers in `order`, made one after the other on st: the
\* state they end in, and whether each returned what its caller got.
RECURSIVE RunSeq(_, _, _)
RunSeq(st, order, i) ==
  IF i > Len(order) THEN [st |-> st, same |-> TRUE]
  ELSE LET out  == Serve(st, thr[order[i]].req)
           rest == RunSeq(out.st, order, i + 1)
       IN  [rest EXCEPT !.same = @ /\ out.ret = thr[order[i]].ret]

\* C14: hook installs and hook releases that run concurrently take effect
\* one after the other.  Whenever no caller is between its bookkeeping and
\* its memory write, the state is the one that the calls that took effect
\* produce when made one at a time in some order, with the same return
\* values; the chain of every site has one entry per hook held there (none
\* is lost), is linked from the newest hook down to the oldest, whose
\* original content is the unpatched content of the site; and the memory
\* redirects to the hook function of the newest hook.
C14_HooksSerialised ==
  Settled =>
    /\ \E o \in Orders :
         LET run == RunSeq(Started, o, 1)
         IN  /\ run.same
             /\ run.st.mem = mem /\ run.st.patches = patches /\ run.st.next_uid = next_uid
    /\ \A s \in Sites :
         LET H == HeldHooks(s[1], s[2])
         IN  /\ Cardinality(HooksAt(patches, s[1], s[2])) = Cardinality(H)
             /\ \A i \in H :
                  /\ RecordOf(i) # {}
                  /\ \A r \in RecordOf(i) :
                       /\ r.hook_function = held[i].func
                       /\ IF OlderHeld(i) = 0
                            THEN /\ r.next_ref = ORIGINAL
                                 /\ r.original_content =
                                      SubSeq(OrigContent(s[1], s[2]), 1, HOOK_SIZE)
                            ELSE r.next_ref = held[OlderHeld(i)].uid
             /\ H # {} => mem[s[1]][s[2]] = Over(s[1], s[2], Redirect(held[Max(H)].func))

\* Two callers were in their hook install on the same unpatched site at the
\* same time and both got a handle: the chain has depth 2, and the memory
\* redirects to the hook of the one the store let in second.
C14_Witness ==
  \E t, u \in Threads :
    /\ t # u /\ thr[t].pc = "done" /\ thr[u].pc = "done"
    /\ thr[t].req.op = "taiHookFunctionAbs" /\ thr[u].req.op = "taiHookFunctionAbs"
    /\ thr[t].req.addr = 1 /\ thr[u].req.addr = 1
    /\ thr[t].ret > 0 /\ thr[u].ret > thr[t].ret
    /\ Cardinality(HooksAt(patches, KERNEL_PID, 1)) = 2
    /\ mem[KERNEL_PID][1] = Over(KERNEL_PID, 1, Redirect(ConcFunc(u)))

\* The plugin loads among `calls`.
PluginLoads(calls) == SelectSeq(calls, LAMBDA c : c.fn = "hen_load_plugin")

\* C12: without a configuration (g_config is 0) the plugin loading returns
\* TAI_ERROR_SYSTEM, which is negative, and neither the parser nor a plugin
\* load is called; with one it calls the parser once for the caller's title,
\* every plugin load the parser makes carries the caller's pid and flags, and
\* the call returns 0 whatever the parser handed over and the loads reported.
C12_LoadPlugins ==
  last.op = "taiLoadPluginsForTitleForKernel" =>
    IF sys.g_config = 0
      THEN /\ last.ret = TAI_ERROR_SYSTEM /\ last.ret < 0
           /\ last.calls = <<>>
      ELSE /\ last.ret = 0
           /\ Len(last.calls) >= 1
           /\ last.calls[1] = Call("taihen_config_parse", last.pid, 0,
                                    <<last.arg.titleid, last.arg.flags>>)
           /\ Len(PluginLoads(last.calls)) = Len(last.calls) - 1
           /\ \A i \in 1 .. Len(PluginLoads(last.calls)) :
                LET c == PluginLoads(last.calls)[i]
                IN  /\ c.pid = last.pid
                    /\ c.arg = <<ConfigTexts[sys.g_config][last.arg.titleid][i], last.arg.flags>>

\* The plugins of a title were loaded with a configuration in place: the
\* first load failed, the second one succeeded, and the call returned 0.
C12_Witness ==
  /\ last.op = "taiLoadPluginsForTitleForKernel" /\ sys.g_config # 0 /\ last.ret = 0
  /\ Len(PluginLoads(last.calls)) = 2
  /\ last.arg.run.rets[1] < 0 /\ last.arg.run.rets[2] >= 0
  /\ last.arg.flags # 0 /\ last.pid # KERNEL_PID
  /\ <<last.pid, "ux0:b.suprx">> \in sys.plugins

====
